---- MODULE Spec2Model ----
(***************************************************************************)
(* Reconciliation of declared repository configurations against an         *)
(* Artifactory server, as performed by ActionModule.run of the             *)
(* artifactory_repository action plugin (specification Spec) and by the    *)
(* ArtifactoryApi library class (specification SpecApi).  A record is a    *)
(* Python dict, modelled as a function from field names to strings; the    *)
(* server is the environment: it stores one record per key, answers the    *)
(* listing call with one entry per stored key, and may fail any call.      *)
(***************************************************************************)
EXTENDS Naturals, Sequences, FiniteSets, TLC

VARIABLES
    remote,              \* the server: stored key -> stored record
    remote0,             \* the server's content when the current run started
    pc,                  \* position of the run inside ActionModule.run
    error,               \* the exception that ended the run ("" if none)
    runs,                \* number of runs started so far
    desiredInput,        \* the task's repository_configs as declared
    repository_configs,  \* args['repository_configs'] (the dicts are mutated)
    state,               \* args['state']
    check_mode,          \* self._play_context.check_mode
    auth,                \* <<args['auth_type'], args['auth_string']>>
    ignore_ca_error,     \* args['ignore_ca_error'] (Python's True and False as "True", "False")
    headers,             \* uriParams['headers']
    jsonGetResult,       \* parsed answer of the listing call
    onlyInArgs, inBoth, onlyInArtifactory,
    toRemove,
    idx,                 \* position of the running for-loop (1-based)
    currentConfig,       \* parsed answer of the last read-one call
    addedRepos, updatedRepos, deletedRepos,
    result,              \* the dict returned by run
    calls,               \* the requests issued by the current run, in order
    prev,                \* summary of the previous run of the same task
    api,                 \* the ArtifactoryApi object
    frame                \* the locals of the running ArtifactoryApi method

vars == <<remote, remote0, pc, error, runs, desiredInput, repository_configs,
          state, check_mode, auth, headers, jsonGetResult, onlyInArgs, inBoth,
          onlyInArtifactory, toRemove, idx, currentConfig, addedRepos,
          updatedRepos, deletedRepos, result, calls, prev, ignore_ca_error, api, frame>>

(***************************************************************************)
(* Bounds and input alphabets                                              *)
(***************************************************************************)
MaxDesired == 2
MaxActual == 2
MaxRuns == 2

Keys == {"a", "A", "b"}
PackageTypes == {"maven", "npm"}
None == "None"
StateArgs == {"Present", "absent", "PRUNE", "Purge"}
AuthArgs == {<<"Basic", "user:pw">>, <<"basic", "tok">>, <<"AccessToken", "tok">>,
             <<"ApiKey", "tok">>, <<"Digest", "tok">>}
IgnoreCaArgs == {"False", "True", "no", "yes"}
\* the connection arguments of a task: every authentication with the default
\* ignore_ca_error, and every ignore_ca_error with an access token
ConnectionArgs ==
    {<<a, "False">> : a \in AuthArgs}
        \cup {<<<<"AccessToken", "tok">>, ica>> : ica \in IgnoreCaArgs}

\* str.lower() on the strings of the model
Lower(s) ==
    CASE s = "A" -> "a"
      [] s = "Present" -> "present"
      [] s = "PRUNE" -> "prune"
      [] s = "Purge" -> "purge"
      [] s = "Basic" -> "basic"
      [] s = "AccessToken" -> "accesstoken"
      [] s = "ApiKey" -> "apikey"
      [] s = "Digest" -> "digest"
      [] s = "False" -> "false"
      [] s = "True" -> "true"
      [] OTHER -> s

\* ':' in auth_string
HasColon(s) == s = "user:pw"

(***************************************************************************)
(* Records                                                                 *)
(***************************************************************************)
Config(k, pt) == [key |-> k, rclass |-> "local", packageType |-> pt]

DesiredRecords ==
    {Config(k, pt) : k \in Keys, pt \in PackageTypes} \cup {Config("b", None)}

SeqsUpTo(S, n) == UNION {[1..m -> S] : m \in 0..n}

DesiredLists == SeqsUpTo(DesiredRecords, MaxDesired)

\* a record as the server holds it before the first run
Stored(k) == [key |-> k, rclass |-> "local", packageType |-> "maven", description |-> "d"]

InitialRemotes ==
    {[k \in K |-> Stored(k)] : K \in {S \in SUBSET Keys : Cardinality(S) <= MaxActual}}

NoRecord == [key |-> ""]

(***************************************************************************)
(* Python list and dict helpers                                            *)
(***************************************************************************)
Range(s) == {s[i] : i \in 1..Len(s)}

KeysOf(s) == {s[i].key : i \in 1..Len(s)}

LowerKeysOf(s) == {Lower(s[i].key) : i \in 1..Len(s)}

\* x in list
Contains(s, x) == \E i \in 1..Len(s) : s[i] = x

\* list.remove(x): drops the first element equal to x
RemoveFirst(s, x) ==
    LET i == CHOOSE j \in 1..Len(s) : s[j] = x /\ \A h \in 1..(j - 1) : s[h] # x
    IN  [h \in 1..(Len(s) - 1) |-> IF h < i THEN s[h] ELSE s[h + 1]]

\* d = a.copy(); d.update(b)
DictUpdate(a, b) ==
    [f \in (DOMAIN a) \cup (DOMAIN b) |-> IF f \in DOMAIN b THEN b[f] ELSE a[f]]

(***************************************************************************)
(* Argument validation and request headers (run, lines 111-163)            *)
(***************************************************************************)
\* variant: the required fields are not checked
MissingRequiredFieldNever(configs) == FALSE

\* lines 118-126: every configuration has key, packageType and rclass
MissingRequiredField(configs) ==
    \E i \in 1..Len(configs) :
        configs[i].key = None \/ configs[i].packageType = None \/ configs[i].rclass = None

\* lines 127-131: two configurations whose keys are equal ignoring case
HasDuplicateKey(configs) ==
    /\ Len(configs) >= 2
    /\ \E repo1 \in 1..(Len(configs) - 1) :
          \E repo2 \in (repo1 + 1)..Len(configs) :
              Lower(configs[repo1].key) = Lower(configs[repo2].key)

\* variant: the state is not checked
ValidStateAnything(st) == TRUE

\* lines 134-136
ValidState(st) == st = "absent" \/ st = "present" \/ st = "prune"

\* lines 137-141
ValidAuth(authType, authString) ==
    /\ authType = "basic" \/ authType = "accesstoken" \/ authType = "apikey"
    /\ ~(authType = "basic" /\ ~HasColon(authString))

NoHeaders == [name |-> "", value |-> ""]

\* lines 150-156; base64.standard_b64encode is handed a str and raises TypeError
BuildHeaders(authType, authString) ==
    IF authType = "accesstoken"
    THEN [err |-> "", headers |-> [name |-> "Authorization", value |-> <<"Bearer ", authString>>]]
    ELSE IF authType = "apikey"
    THEN [err |-> "", headers |-> [name |-> "X-JFrog-Art-Api", value |-> <<authString>>]]
    ELSE [err |-> "TypeError", headers |-> NoHeaders]

\* lines 142-144
IgnoreCaError(arg) ==
    IF Lower(arg) = "false" \/ Lower(arg) = "no" THEN "False"
    ELSE IF arg = "" THEN "False" ELSE "True"

\* line 163
CaWarning == "API calls to Artifactory are not validating CA certs."

\* the exception raised by lines 111-156, "" if none
ValidationError(configs, stateArg, authArg) ==
    IF MissingRequiredField(configs) THEN "AnsibleOptionsError"
    ELSE IF HasDuplicateKey(configs) THEN "AnsibleOptionsError"
    ELSE IF ~ValidState(Lower(stateArg)) THEN "AnsibleOptionsError"
    ELSE IF ~ValidAuth(Lower(authArg[1]), authArg[2]) THEN "AnsibleOptionsError"
    ELSE BuildHeaders(Lower(authArg[1]), authArg[2]).err

(***************************************************************************)
(* The three-way sort of lines 186-197                                     *)
(***************************************************************************)
\* variant: the keys are compared as they are written
SortStepCaseSensitive(st, i, item) ==
    LET repo == st.configs[i] IN
    IF st.err # "" THEN st
    ELSE IF item.key # repo.key THEN st
    ELSE IF ~Contains(st.onlyInArgs, repo) THEN [st EXCEPT !.err = "ValueError"]
    ELSE LET st2 == [st EXCEPT !.onlyInArgs = RemoveFirst(@, repo),
                               !.inBoth = Append(@, repo)]
         IN  IF ~Contains(st2.onlyInArtifactory, repo)
             THEN [st2 EXCEPT !.err = "ValueError"]
             ELSE [st2 EXCEPT !.onlyInArtifactory = RemoveFirst(@, repo)]

\* variant: the key of the configuration keeps its own capitalization
SortStepNoRename(st, i, item) ==
    LET repo == st.configs[i] IN
    IF st.err # "" THEN st
    ELSE IF Lower(item.key) # Lower(repo.key) THEN st
    ELSE IF ~Contains(st.onlyInArgs, repo) THEN [st EXCEPT !.err = "ValueError"]
    ELSE LET st2 == [st EXCEPT !.onlyInArgs = RemoveFirst(@, repo),
                               !.inBoth = Append(@, repo)]
         IN  IF ~Contains(st2.onlyInArtifactory, repo)
             THEN [st2 EXCEPT !.err = "ValueError"]
             ELSE [st2 EXCEPT !.onlyInArtifactory = RemoveFirst(@, repo)]

\* body of the inner loop for args['repository_configs'][i] and item
SortStep(st, i, item) ==
    LET repo == st.configs[i] IN
    IF st.err # "" THEN st
    ELSE IF Lower(item.key) # Lower(repo.key) THEN st
    ELSE IF ~Contains(st.onlyInArgs, repo) THEN [st EXCEPT !.err = "ValueError"]
    ELSE LET renamed == [repo EXCEPT !.key = item.key]
             st2 == [st EXCEPT !.onlyInArgs = RemoveFirst(@, repo),
                               !.configs[i] = renamed,
                               !.inBoth = Append(@, renamed)]
         IN  IF ~Contains(st2.onlyInArtifactory, renamed)
             THEN [st2 EXCEPT !.err = "ValueError"]
             ELSE [st2 EXCEPT !.onlyInArtifactory = RemoveFirst(@, renamed)]

\* the first n iterations of the nested loops, in execution order
RECURSIVE SortLoop(_, _, _)
SortLoop(configs, listing, n) ==
    IF n = 0
    THEN [configs |-> configs, onlyInArgs |-> configs, inBoth |-> <<>>,
          onlyInArtifactory |-> listing, err |-> ""]
    ELSE LET i == ((n - 1) \div Len(listing)) + 1
             j == ((n - 1) % Len(listing)) + 1
         IN  SortStep(SortLoop(configs, listing, n - 1), i, listing[j])

SortRepos(configs, listing) == SortLoop(configs, listing, Len(configs) * Len(listing))

(***************************************************************************)
(* Decisions of the apply phase                                            *)
(***************************************************************************)
\* variant: the configurations are applied whatever the state
AppliesConfigsAnyState(st) == TRUE

\* lines 205 and 224
AppliesConfigs(st) == st = "present" \/ st = "prune"

\* variant: check mode is not honoured
SendsAlways(checkMode) == TRUE

\* lines 207, 246, 270
Sends(checkMode) == ~checkMode

\* variant: additions are counted only when they are sent
AddedCountWhenSent(st, only) ==
    IF (st = "present" \/ st = "prune") /\ only # <<>> /\ ~check_mode THEN Len(only) ELSE 0

\* variant: the additions are counted as one
AddedCountOne(st, only) == IF AppliesConfigs(st) /\ only # <<>> THEN 1 ELSE 0

\* line 206
AddedCount(st, only) == IF AppliesConfigs(st) /\ only # <<>> THEN Len(only) ELSE 0

\* lines 240-241
FutureConfig(current, repo) == DictUpdate(current, repo)

\* variant: only the keys are compared
NeedsUpdateKeyOnly(current, repo) == DictUpdate(current, repo).key # current.key

\* variant: every configuration in both is updated
NeedsUpdateAlways(current, repo) == TRUE

\* line 244
NeedsUpdate(current, repo) == FutureConfig(current, repo) # current

\* variant: Prune removes nothing
SelectToRemoveNoPrune(st, both, onlyArt) ==
    IF st = "absent" /\ both # <<>> THEN both ELSE <<>>

\* variant: Present removes the unlisted repositories as Prune does
SelectToRemovePresentToo(st, both, onlyArt) ==
    LET first == IF st = "absent" /\ both # <<>> THEN both ELSE <<>>
    IN  IF (st = "prune" \/ st = "present") /\ onlyArt # <<>> THEN onlyArt ELSE first

\* variant: Absent removes what is only in artifactory when nothing matches
SelectToRemoveAbsentAll(st, both, onlyArt) ==
    LET first == IF st = "absent" THEN (IF both # <<>> THEN both ELSE onlyArt) ELSE <<>>
    IN  IF st = "prune" /\ onlyArt # <<>> THEN onlyArt ELSE first

\* variant: Prune removes the repositories in both as well
SelectToRemovePruneBoth(st, both, onlyArt) ==
    LET first == IF st = "absent" /\ both # <<>> THEN both ELSE <<>>
    IN  IF st = "prune" /\ onlyArt # <<>> THEN both \o onlyArt ELSE first

\* lines 263-267
SelectToRemove(st, both, onlyArt) ==
    LET first == IF st = "absent" /\ both # <<>> THEN both ELSE <<>>
    IN  IF st = "prune" /\ onlyArt # <<>> THEN onlyArt ELSE first

\* variant: the counter is set to one instead of the length
DeletedCountOne(removed) == 1

\* line 269
DeletedCount(removed) == Len(removed)

\* variant: only the additions make a change
ChangedWhenAdded(added, updated, deleted) == ~(added = 0)

\* lines 286-291
Changed(added, updated, deleted) == ~(added + updated + deleted = 0)

(***************************************************************************)
(* The server, as seen through the uri module                              *)
(***************************************************************************)
KeyOrder == <<"A", "a", "b">>

\* what the listing may show for a stored record: a summary, or an entry
\* in configuration format
ListingViews(rec) ==
    {[key |-> rec.key, type |-> "LOCAL", packageType |-> rec.packageType]}
        \cup {Config(rec.key, pt) : pt \in PackageTypes}

Listings(store) ==
    LET ks == SelectSeq(KeyOrder, LAMBDA k : k \in DOMAIN store)
        views == UNION {ListingViews(store[k]) : k \in DOMAIN store}
    IN  {s \in [1..Len(ks) -> views] : \A i \in 1..Len(ks) : s[i] \in ListingViews(store[ks[i]])}

\* PUT api/repositories/<key>
ServerPut(store, k, body) ==
    [x \in (DOMAIN store) \cup {k} |-> IF x = k THEN body ELSE store[x]]

\* POST api/repositories/<key>: the server replaces the stored configuration
\* by the body or applies the body's elements to it
ServerPost(store, k, body, merges) ==
    [store EXCEPT ![k] = IF merges THEN DictUpdate(@, body) ELSE body]

\* DELETE api/repositories/<key>
ServerDelete(store, k) == [x \in (DOMAIN store) \ {k} |-> store[x]]

\* uri module_args of one request; validate_certs is 'no' when set by line 160
\* and the uri module's default otherwise
Call(method, k, body) ==
    [method |-> method, url |-> k, body |-> body, headers |-> headers,
     validate_certs |-> IF ignore_ca_error = "True" THEN "no" ELSE "yes",
     failed |-> FALSE]

\* the request together with the 'failed' element of its result
Answered(call, failed) == [call EXCEPT !.failed = failed]

IsMutation(c) == c.method \in {"PUT", "POST", "DELETE"}

\* variant: the result of a call is not examined
FailedIgnored(failed) == FALSE

\* lines 177, 220, 258, 280: result.get('failed', False)
Failed(failed) == failed

\* variant: the removals come first
BatchOrderRemoveFirst == <<"remove", "create", "update">>

\* the three blocks of the apply phase, lines 204-221, 223-259 and 261-281
BatchOrder == <<"create", "update", "remove">>

\* where run continues when the block b is finished
After(b) ==
    LET i == CHOOSE j \in 1..Len(BatchOrder) : BatchOrder[j] = b
    IN  IF i = Len(BatchOrder) THEN "report" ELSE BatchOrder[i + 1]

(***************************************************************************)
(* State machine of one task: run after run of ActionModule.run            *)
(***************************************************************************)
NoResult == [returned |-> FALSE, changed |-> FALSE, warning |-> <<>>]

NoPrev == [completed |-> FALSE, check_mode |-> FALSE, listing |-> <<>>,
           added |-> 0, updated |-> 0, deleted |-> 0, changed |-> FALSE]

\* a Python list and a ConfigRecord object, as values of one variable
PyList(items) == [type |-> "list", items |-> items]

ConfigRecord(record, keylist) == [type |-> "ConfigRecord", record |-> record, keylist |-> keylist]

NoApi == [constructed |-> FALSE, headers |-> NoHeaders, ignore_ca_error |-> FALSE,
          configs |-> PyList(<<>>), keyList |-> <<>>, inCheckMode |-> FALSE]

NoFrame == [op |-> "", configs |-> <<>>, artifactoryRecordList |-> <<>>,
            onlyInConfigList |-> <<>>, inBoth |-> <<>>, onlyInArtifactory |-> <<>>,
            work |-> <<>>, isChanged |-> FALSE]

Init ==
    /\ remote \in InitialRemotes
    /\ remote0 = remote
    /\ pc = "ready"
    /\ error = ""
    /\ runs = 0
    /\ desiredInput = <<>>
    /\ repository_configs = <<>>
    /\ state = ""
    /\ check_mode = FALSE
    /\ auth = <<"", "">>
    /\ ignore_ca_error = "False"
    /\ headers = NoHeaders
    /\ jsonGetResult = <<>>
    /\ onlyInArgs = <<>>
    /\ inBoth = <<>>
    /\ onlyInArtifactory = <<>>
    /\ toRemove = <<>>
    /\ idx = 0
    /\ currentConfig = NoRecord
    /\ addedRepos = 0
    /\ updatedRepos = 0
    /\ deletedRepos = 0
    /\ result = NoResult
    /\ calls = <<>>
    /\ prev = NoPrev
    /\ api = NoApi
    /\ frame = NoFrame

\* the locals of run at its entry
FreshLocals ==
    /\ error' = ""
    /\ headers' = NoHeaders
    /\ jsonGetResult' = <<>>
    /\ onlyInArgs' = <<>>
    /\ inBoth' = <<>>
    /\ onlyInArtifactory' = <<>>
    /\ toRemove' = <<>>
    /\ idx' = 0
    /\ currentConfig' = NoRecord
    /\ addedRepos' = 0
    /\ updatedRepos' = 0
    /\ deletedRepos' = 0
    /\ result' = NoResult
    /\ calls' = <<>>
    /\ remote0' = remote
    /\ UNCHANGED remote

\* the task is run for the first time (run, lines 88-109)
StartRun ==
    /\ pc = "ready"
    /\ runs < MaxRuns
    /\ \E configs \in DesiredLists, st \in StateArgs, cm \in BOOLEAN, c \in ConnectionArgs :
          /\ desiredInput' = configs
          /\ repository_configs' = configs
          /\ state' = st
          /\ check_mode' = cm
          /\ auth' = c[1]
          /\ ignore_ca_error' = c[2]
    /\ runs' = runs + 1
    /\ pc' = "validate"
    /\ prev' = NoPrev
    /\ FreshLocals
    /\ UNCHANGED <<api, frame>>

\* the task has completed and is run again, in check mode or not
Rerun ==
    /\ pc = "done"
    /\ runs < MaxRuns
    /\ repository_configs' = desiredInput
    /\ \E cm \in BOOLEAN : check_mode' = cm
    /\ runs' = runs + 1
    /\ pc' = "validate"
    /\ prev' = [completed |-> TRUE, check_mode |-> check_mode, listing |-> jsonGetResult,
                added |-> addedRepos, updated |-> updatedRepos, deleted |-> deletedRepos,
                changed |-> result.changed]
    /\ FreshLocals
    /\ UNCHANGED <<desiredInput, state, auth, ignore_ca_error, api, frame>>

\* run, lines 111-163; the dict returned by ActionBase.run may or may not
\* hold the element 'warning' that line 161 reads
Validate ==
    /\ pc = "validate"
    /\ LET err == ValidationError(repository_configs, state, auth)
           ica == IF err \in {"", "TypeError"}
                  THEN IgnoreCaError(ignore_ca_error) ELSE ignore_ca_error
       IN  /\ ignore_ca_error' = ica
           /\ IF err # ""
              THEN /\ pc' = "error"
                   /\ error' = err
                   /\ UNCHANGED <<headers, result>>
              ELSE /\ headers' = BuildHeaders(Lower(auth[1]), auth[2]).headers
                   /\ IF ica = "True"
                      THEN \/ /\ pc' = "error"
                              /\ error' = "KeyError"
                              /\ UNCHANGED result
                           \/ /\ pc' = "fetch"
                              /\ result' = [result EXCEPT !.warning = Append(@, CaWarning)]
                              /\ UNCHANGED error
                      ELSE /\ pc' = "fetch"
                           /\ UNCHANGED <<error, result>>
    /\ state' = IF MissingRequiredField(repository_configs) \/ HasDuplicateKey(repository_configs)
                THEN state ELSE Lower(state)
    /\ UNCHANGED <<remote, remote0, runs, desiredInput, repository_configs, check_mode,
                   auth, jsonGetResult, onlyInArgs, inBoth, onlyInArtifactory, toRemove, idx,
                   currentConfig, addedRepos, updatedRepos, deletedRepos, calls, prev,
                   api, frame>>

\* run, lines 165-179: GET api/repositories
GetRepos ==
    /\ pc = "fetch"
    /\ \E failed \in BOOLEAN :
          /\ calls' = Append(calls, Answered(Call("GET", "", NoRecord), failed))
          /\ IF Failed(failed)
             THEN /\ pc' = "error"
                  /\ error' = "AnsibleActionFail"
                  /\ UNCHANGED jsonGetResult
             ELSE /\ \E listing \in (IF failed THEN {<<>>} ELSE Listings(remote)) :
                        jsonGetResult' = listing
                  /\ pc' = "sort"
                  /\ UNCHANGED error
    /\ UNCHANGED <<remote, remote0, runs, desiredInput, repository_configs, state, check_mode,
                   auth, headers, onlyInArgs, inBoth, onlyInArtifactory, toRemove, idx,
                   currentConfig, addedRepos, updatedRepos, deletedRepos, result, prev,
                   ignore_ca_error, api, frame>>

\* run, lines 186-202
Sort ==
    /\ pc = "sort"
    /\ LET r == SortRepos(repository_configs, jsonGetResult) IN
          /\ repository_configs' = r.configs
          /\ onlyInArgs' = r.onlyInArgs
          /\ inBoth' = r.inBoth
          /\ onlyInArtifactory' = r.onlyInArtifactory
          /\ error' = r.err
          /\ pc' = IF r.err # "" THEN "error" ELSE BatchOrder[1]
    /\ idx' = 1
    /\ UNCHANGED <<remote, remote0, runs, desiredInput, state, check_mode, auth, headers,
                   jsonGetResult, toRemove, currentConfig, addedRepos, updatedRepos,
                   deletedRepos, result, calls, prev, ignore_ca_error, api, frame>>

\* run, lines 204-207
CountAdded ==
    /\ pc = "create"
    /\ addedRepos' = AddedCount(state, onlyInArgs)
    /\ IF AppliesConfigs(state) /\ onlyInArgs # <<>> /\ Sends(check_mode)
       THEN pc' = "put" /\ idx' = 1
       ELSE pc' = After("create") /\ idx' = 1
    /\ UNCHANGED <<remote, remote0, error, runs, desiredInput, repository_configs, state,
                   check_mode, auth, headers, jsonGetResult, onlyInArgs, inBoth,
                   onlyInArtifactory, toRemove, currentConfig, updatedRepos, deletedRepos,
                   result, calls, prev, ignore_ca_error, api, frame>>

\* run, lines 208-221: PUT api/repositories/<key> for onlyInArgs[idx]
PutRepo ==
    /\ pc = "put"
    /\ LET repo == onlyInArgs[idx] IN
       \E failed \in BOOLEAN :
          /\ calls' = Append(calls, Answered(Call("PUT", repo.key, repo), failed))
          /\ IF Failed(failed)
             THEN /\ pc' = "error"
                  /\ error' = "AnsibleActionFail"
                  /\ UNCHANGED <<remote, idx>>
             ELSE /\ remote' = IF failed THEN remote ELSE ServerPut(remote, repo.key, repo)
                  /\ IF idx < Len(onlyInArgs)
                     THEN idx' = idx + 1 /\ pc' = "put"
                     ELSE idx' = 1 /\ pc' = After("create")
                  /\ UNCHANGED error
    /\ UNCHANGED <<remote0, runs, desiredInput, repository_configs, state, check_mode, auth,
                   headers, jsonGetResult, onlyInArgs, inBoth, onlyInArtifactory, toRemove,
                   currentConfig, addedRepos, updatedRepos, deletedRepos, result, prev,
                   ignore_ca_error, api, frame>>

\* run, lines 224-245: GET api/repositories/<key> for inBoth[idx], then the
\* comparison of the present and the future configuration
GetRepoConfig ==
    /\ pc = "update"
    /\ AppliesConfigs(state)
    /\ idx <= Len(inBoth)
    /\ LET repo == inBoth[idx] IN
       \E failed \in (IF repo.key \in DOMAIN remote THEN BOOLEAN ELSE {TRUE}) :
          /\ calls' = Append(calls, Answered(Call("GET", repo.key, NoRecord), failed))
          /\ IF Failed(failed)
             THEN /\ pc' = "error"
                  /\ error' = "AnsibleActionFail"
                  /\ UNCHANGED <<currentConfig, updatedRepos, idx>>
             ELSE LET current == IF failed THEN NoRecord ELSE remote[repo.key] IN
                  /\ currentConfig' = current
                  /\ UNCHANGED error
                  /\ IF NeedsUpdate(current, repo)
                     THEN /\ updatedRepos' = updatedRepos + 1
                          /\ IF Sends(check_mode)
                             THEN pc' = "post" /\ idx' = idx
                             ELSE pc' = "update" /\ idx' = idx + 1
                     ELSE /\ pc' = "update"
                          /\ idx' = idx + 1
                          /\ UNCHANGED updatedRepos
    /\ UNCHANGED <<remote, remote0, runs, desiredInput, repository_configs, state, check_mode,
                   auth, headers, jsonGetResult, onlyInArgs, inBoth, onlyInArtifactory,
                   toRemove, addedRepos, deletedRepos, result, prev, ignore_ca_error,
                   api, frame>>

\* run, lines 246-259: POST api/repositories/<key> for inBoth[idx]
PostRepoConfig ==
    /\ pc = "post"
    /\ LET repo == inBoth[idx] IN
       \E failed \in BOOLEAN :
          /\ calls' = Append(calls, Answered(Call("POST", repo.key, repo), failed))
          /\ IF Failed(failed)
             THEN /\ pc' = "error"
                  /\ error' = "AnsibleActionFail"
                  /\ UNCHANGED <<remote, idx>>
             ELSE /\ \E merges \in BOOLEAN :
                        remote' = IF failed THEN remote
                                  ELSE ServerPost(remote, repo.key, repo, merges)
                  /\ pc' = "update"
                  /\ idx' = idx + 1
                  /\ UNCHANGED error
    /\ UNCHANGED <<remote0, runs, desiredInput, repository_configs, state, check_mode, auth,
                   headers, jsonGetResult, onlyInArgs, inBoth, onlyInArtifactory, toRemove,
                   currentConfig, addedRepos, updatedRepos, deletedRepos, result, prev,
                   ignore_ca_error, api, frame>>

\* run, lines 223-225: the update block is skipped or its loop is finished
LeaveUpdates ==
    /\ pc = "update"
    /\ ~AppliesConfigs(state) \/ idx > Len(inBoth)
    /\ pc' = After("update")
    /\ idx' = 1
    /\ UNCHANGED <<remote, remote0, error, runs, desiredInput, repository_configs, state,
                   check_mode, auth, headers, jsonGetResult, onlyInArgs, inBoth,
                   onlyInArtifactory, toRemove, currentConfig, addedRepos, updatedRepos,
                   deletedRepos, result, calls, prev, ignore_ca_error, api, frame>>

\* run, lines 261-267
ChooseToRemove ==
    /\ pc = "remove"
    /\ LET removed == SelectToRemove(state, inBoth, onlyInArtifactory) IN
          /\ toRemove' = removed
          /\ pc' = IF removed = <<>> THEN After("remove") ELSE "delete"
    /\ idx' = 1
    /\ UNCHANGED <<remote, remote0, error, runs, desiredInput, repository_configs, state,
                   check_mode, auth, headers, jsonGetResult, onlyInArgs, inBoth,
                   onlyInArtifactory, currentConfig, addedRepos, updatedRepos, deletedRepos,
                   result, calls, prev, ignore_ca_error, api, frame>>

\* run, lines 268-281: one pass of the loop over toRemove
DeleteRepo ==
    /\ pc = "delete"
    /\ idx <= Len(toRemove)
    /\ deletedRepos' = DeletedCount(toRemove)
    /\ LET repo == toRemove[idx]
           next == IF idx < Len(toRemove) THEN "delete" ELSE After("remove")
           nextIdx == IF idx < Len(toRemove) THEN idx + 1 ELSE 1
       IN  IF Sends(check_mode)
           THEN \E failed \in BOOLEAN :
                   /\ calls' = Append(calls, Answered(Call("DELETE", repo.key, NoRecord), failed))
                   /\ IF Failed(failed)
                      THEN /\ pc' = "error"
                           /\ error' = "AnsibleActionFail"
                           /\ UNCHANGED <<remote, idx>>
                      ELSE /\ remote' = IF failed THEN remote ELSE ServerDelete(remote, repo.key)
                           /\ idx' = nextIdx
                           /\ pc' = next
                           /\ UNCHANGED error
           ELSE /\ idx' = nextIdx
                /\ pc' = next
                /\ UNCHANGED <<remote, error, calls>>
    /\ UNCHANGED <<remote0, runs, desiredInput, repository_configs, state, check_mode, auth,
                   headers, jsonGetResult, onlyInArgs, inBoth, onlyInArtifactory, toRemove,
                   currentConfig, addedRepos, updatedRepos, result, prev, ignore_ca_error,
                   api, frame>>

\* run, lines 285-293
Report ==
    /\ pc = "report"
    /\ result' = [result EXCEPT !.returned = TRUE,
                                !.changed = Changed(addedRepos, updatedRepos, deletedRepos)]
    /\ pc' = "done"
    /\ UNCHANGED <<remote, remote0, error, runs, desiredInput, repository_configs, state,
                   check_mode, auth, headers, jsonGetResult, onlyInArgs, inBoth,
                   onlyInArtifactory, toRemove, idx, currentConfig, addedRepos, updatedRepos,
                   deletedRepos, calls, prev, ignore_ca_error, api, frame>>

Next ==
    \/ StartRun
    \/ Rerun
    \/ Validate
    \/ GetRepos
    \/ Sort
    \/ CountAdded
    \/ PutRepo
    \/ GetRepoConfig
    \/ PostRepoConfig
    \/ LeaveUpdates
    \/ ChooseToRemove
    \/ DeleteRepo
    \/ Report

Spec == Init /\ [][Next]_vars

TypeOK ==
    /\ pc \in {"ready", "validate", "fetch", "sort", "create", "put", "update", "post",
               "remove", "delete", "report", "done", "error"}
    /\ error \in {"", "AnsibleOptionsError", "AnsibleActionFail", "ValueError", "TypeError",
                  "KeyError"}
    /\ runs \in 0..MaxRuns
    /\ check_mode \in BOOLEAN
    /\ DOMAIN remote \subseteq Keys
    /\ \A k \in DOMAIN remote : remote[k].key = k

(***************************************************************************)
(* The ArtifactoryApi class (module_utils/ArtifactoryApi.py).  The class   *)
(* is abstract; its five abstract methods are the environment and behave   *)
(* as their docstrings require, sending their requests with _sendRequest.  *)
(***************************************************************************)
ApiOps == {"applyConfigs", "deleteConfigs", "pruneConfigs"}

\* the arguments of the constructor: every auth_type with the defaults, and
\* every ignore_ca_error and inCheckMode with an access token
ApiArgs ==
    {<<a, FALSE, FALSE>> : a \in {"accesstoken", "apikey", "basic"}}
        \cup {<<"accesstoken", ica, cm>> : ica \in BOOLEAN, cm \in BOOLEAN}

\* the lists of configs handed to the three public methods: keys that are
\* equal, or equal up to letter case
ApiConfigLists == SeqsUpTo({Config(k, "maven") : k \in {"a", "A"}}, MaxDesired)

\* __init__, lines 43-48; base64.standard_b64encode is handed a str
ApiHeaders(authType, authString) ==
    IF authType = "accesstoken"
    THEN [err |-> "", headers |-> [name |-> "Authorization", value |-> <<"Bearer ", authString>>]]
    ELSE IF authType = "apikey"
    THEN [err |-> "", headers |-> [name |-> "X-JFrog-Art-Api", value |-> <<authString>>]]
    ELSE [err |-> "TypeError", headers |-> NoHeaders]

\* _getRecordKeyList
GetRecordKeyList == <<"key">>

\* the attributes of a ConfigRecord object
ConfigRecordAttrs == {"record", "_keylist", "__eq__", "__str__", "deepEquals", "update"}

\* the exception raised by reading the attribute name of a ConfigRecord
AttrError(name) == IF name \in ConfigRecordAttrs THEN "" ELSE "AttributeError"

\* ConfigRecord.__eq__: line 217 reads self.ConfigRecord
ConfigRecordEq(self, other) ==
    IF AttrError("ConfigRecord") # "" THEN [err |-> AttrError("ConfigRecord"), val |-> FALSE]
    ELSE IF other.type # "ConfigRecord" THEN [err |-> "", val |-> FALSE]
    ELSE [err |-> "",
          val |-> \A i \in 1..Len(self.keylist) : other.record.key = self.record.key]

\* ConfigRecord.deepEquals, lines 230-241: line 232 reads self.ConfigRecord,
\* and the loop over the fields compares record['key'] each time
ConfigRecordDeepEquals(self, other) ==
    IF AttrError("ConfigRecord") # "" THEN [err |-> AttrError("ConfigRecord"), val |-> FALSE]
    ELSE IF other.type # "ConfigRecord" THEN [err |-> "", val |-> FALSE]
    ELSE [err |-> "",
          val |-> \A key \in DOMAIN self.record : other.record.key = self.record.key]

\* item in list, after the comparison with the first n elements
RECURSIVE InList(_, _, _)
InList(item, list, n) ==
    IF n = 0 THEN [err |-> "", val |-> FALSE]
    ELSE LET before == InList(item, list, n - 1)
         IN  IF before.err # "" \/ before.val THEN before ELSE ConfigRecordEq(list[n], item)

\* list.remove(item) with ConfigRecord.__eq__
RemoveRecord(list, item) ==
    LET i == CHOOSE j \in 1..Len(list) :
                 /\ ConfigRecordEq(list[j], item).val
                 /\ \A h \in 1..(j - 1) : ~ConfigRecordEq(list[h], item).val
    IN  [h \in 1..(Len(list) - 1) |-> IF h < i THEN list[h] ELSE list[h + 1]]

\* _sortConfigs, lines 180-184: the body of the loop for item
SortConfigsStep(st, item, listB) ==
    IF st.err # "" THEN st
    ELSE LET found == InList(item, listB, Len(listB)) IN
         IF found.err # "" THEN [st EXCEPT !.err = found.err]
         ELSE IF AttrError("copy") # "" THEN [st EXCEPT !.err = AttrError("copy")]
         ELSE IF found.val
         THEN [st EXCEPT !.inBoth = Append(@, item),
                         !.onlyInListB = RemoveRecord(@, item)]
         ELSE [st EXCEPT !.onlyInListA = Append(@, item)]

RECURSIVE SortConfigsLoop(_, _, _)
SortConfigsLoop(listA, listB, n) ==
    IF n = 0
    THEN [onlyInListA |-> <<>>, inBoth |-> <<>>, onlyInListB |-> listB, err |-> ""]
    ELSE SortConfigsStep(SortConfigsLoop(listA, listB, n - 1), listA[n], listB)

\* _sortConfigs, lines 173-185; a ConfigRecord is not iterable
SortConfigs(configRecordListA, configRecordListB) ==
    IF configRecordListA.type # "list"
    THEN [onlyInListA |-> <<>>, inBoth |-> <<>>, onlyInListB |-> configRecordListB.items,
          err |-> "TypeError"]
    ELSE SortConfigsLoop(configRecordListA.items, configRecordListB.items,
                         Len(configRecordListA.items))

\* _sendRequest, lines 187-194: the request handed to Request.open
SendRequest(method, k, body) ==
    [method |-> method, url |-> k, body |-> body, headers |-> api.headers,
     validate_certs |-> IF api.ignore_ca_error THEN "yes" ELSE "no",
     failed |-> FALSE]

\* _getConfigRecordListFromArtifactory: the stored records as ConfigRecords
RecordList(store) ==
    LET ks == SelectSeq(KeyOrder, LAMBDA k : k \in DOMAIN store)
    IN  [i \in 1..Len(ks) |-> ConfigRecord(store[ks[i]], api.keyList)]

\* the calls of the abstract methods made by the three public methods after
\* the sort, in order: lines 67-78, 94-98 and 115-132
ApiWork(op, sorted) ==
    LET tag(kind, list) == [i \in 1..Len(list) |-> <<kind, list[i]>>]
        adds == IF op \in {"applyConfigs", "pruneConfigs"}
                THEN tag("add", sorted.onlyInListA) ELSE <<>>
        updates == IF op \in {"applyConfigs", "pruneConfigs"}
                   THEN tag("update", sorted.inBoth) ELSE <<>>
        deletes == IF op = "deleteConfigs" THEN tag("delete", sorted.inBoth)
                   ELSE IF op = "pruneConfigs" THEN tag("delete", sorted.onlyInListB)
                   ELSE <<>>
    IN  adds \o updates \o deletes

\* the arguments and locals of ActionModule.run
runVars == <<desiredInput, repository_configs, state, check_mode, auth, ignore_ca_error,
             headers, jsonGetResult, onlyInArgs, inBoth, onlyInArtifactory, toRemove, idx,
             currentConfig, addedRepos, updatedRepos, deletedRepos, prev>>

\* __init__, lines 29-52
ApiConstruct ==
    /\ pc = "ready"
    /\ \E a \in ApiArgs :
          LET h == ApiHeaders(a[1], IF a[1] = "basic" THEN "user:pw" ELSE "tok") IN
          IF h.err # ""
          THEN /\ pc' = "raised"
               /\ error' = h.err
               /\ UNCHANGED api
          ELSE /\ pc' = "constructed"
               /\ api' = [constructed |-> TRUE, headers |-> h.headers,
                          ignore_ca_error |-> a[2], configs |-> PyList(<<>>),
                          keyList |-> GetRecordKeyList, inCheckMode |-> a[3]]
               /\ UNCHANGED error
    /\ UNCHANGED <<remote, remote0, runs, result, calls, frame>>
    /\ UNCHANGED runVars

\* applyConfigs, deleteConfigs, pruneConfigs: entry and the first loop
\* (lines 60-61, 87-88, 108-109)
ApiCall ==
    /\ pc \in {"constructed", "returned", "raised"}
    /\ api.constructed
    /\ runs < MaxRuns
    /\ \E op \in ApiOps, configs \in ApiConfigLists :
          /\ frame' = [NoFrame EXCEPT !.op = op, !.configs = configs]
          /\ api' = [api EXCEPT !.configs =
                        IF configs = <<>> THEN @
                        ELSE ConfigRecord(configs[Len(configs)], api.keyList)]
    /\ runs' = runs + 1
    /\ pc' = "listing"
    /\ error' = ""
    /\ result' = NoResult
    /\ calls' = <<>>
    /\ remote0' = remote
    /\ UNCHANGED remote
    /\ UNCHANGED runVars

\* lines 62, 89, 110: _getConfigRecordListFromArtifactory
ApiList ==
    /\ pc = "listing"
    /\ \E failed \in BOOLEAN :
          /\ calls' = Append(calls, Answered(SendRequest("GET", "", NoRecord), failed))
          /\ IF failed
             THEN /\ pc' = "raised"
                  /\ error' = "HTTPError"
                  /\ UNCHANGED frame
             ELSE /\ pc' = "sorting"
                  /\ frame' = [frame EXCEPT !.artifactoryRecordList = RecordList(remote)]
                  /\ UNCHANGED error
    /\ UNCHANGED <<remote, remote0, runs, result, api>>
    /\ UNCHANGED runVars

\* lines 63, 90, 111: _sortConfigs(self.configs, artifactoryRecordList)
ApiSort ==
    /\ pc = "sorting"
    /\ LET r == SortConfigs(api.configs, PyList(frame.artifactoryRecordList)) IN
          /\ frame' = [frame EXCEPT !.onlyInConfigList = r.onlyInListA,
                                    !.inBoth = r.inBoth,
                                    !.onlyInArtifactory = r.onlyInListB,
                                    !.work = IF r.err # "" THEN <<>> ELSE ApiWork(frame.op, r)]
          /\ error' = r.err
          /\ pc' = IF r.err # "" THEN "raised" ELSE "applying"
    /\ UNCHANGED <<remote, remote0, runs, result, calls, api>>
    /\ UNCHANGED runVars

\* one call of _addToArtifactory, _updateInArtifactory or
\* _deleteFromArtifactory (lines 69-78, 96-98, 117-132)
ApiStep ==
    /\ pc = "applying"
    /\ frame.work # <<>>
    /\ LET kind == Head(frame.work)[1]
           config == Head(frame.work)[2]
           k == config.record.key
           differs == k \in DOMAIN remote /\ DictUpdate(remote[k], config.record) # remote[k]
           changes == kind # "update" \/ differs
           method == CASE kind = "add" -> "PUT" [] kind = "update" -> "POST" [] OTHER -> "DELETE"
           body == IF kind = "delete" THEN NoRecord ELSE config.record
           after == CASE kind = "add" -> ServerPut(remote, k, config.record)
                      [] kind = "update" -> ServerPost(remote, k, config.record, TRUE)
                      [] OTHER -> ServerDelete(remote, k)
           reads == IF kind = "update" THEN <<SendRequest("GET", k, NoRecord)>> ELSE <<>>
       IN  IF changes /\ ~api.inCheckMode
           THEN \E failed \in BOOLEAN :
                   /\ calls' = calls \o reads \o <<Answered(SendRequest(method, k, body), failed)>>
                   /\ IF failed
                      THEN /\ pc' = "raised"
                           /\ error' = "HTTPError"
                           /\ UNCHANGED <<remote, frame>>
                      ELSE /\ remote' = after
                           /\ frame' = [frame EXCEPT !.work = Tail(@), !.isChanged = TRUE]
                           /\ UNCHANGED <<pc, error>>
           ELSE /\ calls' = calls \o reads
                /\ frame' = [frame EXCEPT !.work = Tail(@), !.isChanged = @ \/ changes]
                /\ UNCHANGED <<remote, pc, error>>
    /\ UNCHANGED <<remote0, runs, result, api>>
    /\ UNCHANGED runVars

\* lines 80, 100, 134: return isChanged
ApiReturn ==
    /\ pc = "applying"
    /\ frame.work = <<>>
    /\ result' = [NoResult EXCEPT !.returned = TRUE, !.changed = frame.isChanged]
    /\ pc' = "returned"
    /\ UNCHANGED <<remote, remote0, error, runs, calls, api, frame>>
    /\ UNCHANGED runVars

\* _sortConfigs applied to two lists of ConfigRecords
SortConfigsCall ==
    /\ pc = "constructed"
    /\ runs < MaxRuns
    /\ \E configs \in ApiConfigLists :
          LET listA == [i \in 1..Len(configs) |-> ConfigRecord(configs[i], api.keyList)]
              listB == RecordList(remote)
              r == SortConfigs(PyList(listA), PyList(listB))
          IN  /\ frame' = [NoFrame EXCEPT !.op = "_sortConfigs", !.configs = configs,
                                          !.artifactoryRecordList = listB,
                                          !.onlyInConfigList = r.onlyInListA,
                                          !.inBoth = r.inBoth,
                                          !.onlyInArtifactory = r.onlyInListB]
              /\ error' = r.err
              /\ pc' = IF r.err # "" THEN "raised" ELSE "returned"
    /\ runs' = runs + 1
    /\ result' = NoResult
    /\ calls' = <<>>
    /\ remote0' = remote
    /\ UNCHANGED <<remote, api>>
    /\ UNCHANGED runVars

\* the pairs of records deepEquals is applied to
DeepEqualsArgs ==
    LET records == {Config(k, pt) : k \in {"a", "A"}, pt \in PackageTypes}
    IN  SeqsUpTo(records, 2) \ SeqsUpTo(records, 1)

\* ConfigRecord.deepEquals applied to two ConfigRecords
DeepEqualsCall ==
    /\ pc = "constructed"
    /\ runs < MaxRuns
    /\ \E records \in DeepEqualsArgs :
          LET r == ConfigRecordDeepEquals(ConfigRecord(records[1], api.keyList),
                                          ConfigRecord(records[2], api.keyList))
          IN  /\ frame' = [NoFrame EXCEPT !.op = "deepEquals", !.configs = records,
                                          !.isChanged = r.val]
              /\ error' = r.err
              /\ pc' = IF r.err # "" THEN "raised" ELSE "returned"
    /\ runs' = runs + 1
    /\ result' = NoResult
    /\ calls' = <<>>
    /\ remote0' = remote
    /\ UNCHANGED <<remote, api>>
    /\ UNCHANGED runVars

NextApi ==
    \/ ApiConstruct
    \/ ApiCall
    \/ ApiList
    \/ ApiSort
    \/ ApiStep
    \/ ApiReturn
    \/ SortConfigsCall
    \/ DeepEqualsCall

SpecApi == Init /\ [][NextApi]_vars

\* ActionModule.run and the ArtifactoryApi class side by side
NextAll == Next \/ NextApi

SpecAll == Init /\ [][NextAll]_vars

(***************************************************************************)
(* Vocabulary of the properties                                            *)
(***************************************************************************)
CallsOf(method) == SelectSeq(calls, LAMBDA c : c.method = method)

Urls(cs) == [i \in 1..Len(cs) |-> cs[i].url]

KeySeq(s) == [i \in 1..Len(s) |-> s[i].key]

NoMutationIssued == \A i \in 1..Len(calls) : ~IsMutation(calls[i])

RunEnded == pc \in {"done", "error"}

\* the three-way sort of the current run has been executed, to its end or
\* to the statement that raised
SortExecuted ==
    \/ pc \in {"create", "put", "update", "post", "remove", "delete", "report", "done"}
    \/ pc = "error" /\ error = "ValueError"
    \/ pc = "error" /\ error = "AnsibleActionFail" /\ Len(calls) > 1

\* the stored records whose key is no key of the desired list
OnlyActualUntouched ==
    \A k \in DOMAIN remote0 :
        Lower(k) \notin LowerKeysOf(desiredInput)
            => k \in DOMAIN remote /\ remote[k] = remote0[k]

\* the desired record d is on the server with the values of all its fields
\* (the key in the server's spelling)
AppliedOnServer(d) ==
    \E k \in DOMAIN remote :
        /\ Lower(k) = Lower(d.key)
        /\ \A f \in (DOMAIN d) \ {"key"} : f \in DOMAIN remote[k] /\ remote[k][f] = d[f]

\* two records of the list have keys that are equal ignoring letter case
DuplicateKeys(list) ==
    \E i, j \in 1..Len(list) : i # j /\ Lower(list[i].key) = Lower(list[j].key)

\* a public method of the ArtifactoryApi object has executed its _sortConfigs
\* call, or _sortConfigs has been applied directly
ApiSortExecuted ==
    /\ frame.op \in ApiOps \cup {"_sortConfigs"}
    /\ \/ pc \in {"applying", "returned"}
       \/ pc = "raised" /\ error \in {"TypeError", "AttributeError"}

\* the keys of a list of ConfigRecords
RecordKeysOf(list) == {list[i].record.key : i \in 1..Len(list)}

\* some field of the configuration r is not held, with the same value, by
\* the record the server stored under r's key when the run started
DiffersFromStored(r) ==
    \E f \in DOMAIN r : f \notin DOMAIN remote0[r.key] \/ remote0[r.key][f] # r[f]

(***************************************************************************)
(* C1  Partition completeness: whenever the three-way sort has been        *)
(* executed, the keys of onlyInArgs and inBoth together are the keys of    *)
(* the desired list, the keys of onlyInArtifactory and inBoth together     *)
(* are the keys of the listing, and the three lists share no key.          *)
(***************************************************************************)
C1_PartitionCompleteness ==
    SortExecuted =>
        /\ LowerKeysOf(onlyInArgs) \cup LowerKeysOf(inBoth) = LowerKeysOf(desiredInput)
        /\ KeysOf(onlyInArtifactory) \cup KeysOf(inBoth) = KeysOf(jsonGetResult)
        /\ LowerKeysOf(onlyInArgs) \cap LowerKeysOf(inBoth) = {}
        /\ LowerKeysOf(onlyInArgs) \cap LowerKeysOf(onlyInArtifactory) = {}
        /\ KeysOf(inBoth) \cap KeysOf(onlyInArtifactory) = {}

(***************************************************************************)
(* C2  Prune postcondition: when a Prune run outside check mode has        *)
(* completed, the keys stored on the server are the keys of the desired    *)
(* list, and no record that was only on the server is left.                *)
(***************************************************************************)
C2_PrunePostcondition ==
    (pc = "done" /\ state = "prune" /\ ~check_mode) =>
        /\ DOMAIN remote = KeysOf(repository_configs)
        /\ {Lower(k) : k \in DOMAIN remote} = LowerKeysOf(desiredInput)
        /\ Cardinality(DOMAIN remote) = Len(desiredInput)
        /\ \A i \in 1..Len(onlyInArtifactory) : onlyInArtifactory[i].key \notin DOMAIN remote

C2_Witness ==
    /\ pc = "done" /\ state = "prune" /\ ~check_mode
    /\ onlyInArgs # <<>>
    /\ onlyInArtifactory # <<>>
    /\ Len(CallsOf("DELETE")) = Len(onlyInArtifactory)

(***************************************************************************)
(* C3  Present postcondition: when a Present run outside check mode has    *)
(* completed, every desired record is on the server with the desired       *)
(* value in each of its fields.                                            *)
(***************************************************************************)
C3_PresentPostcondition ==
    (pc = "done" /\ state = "present" /\ ~check_mode) =>
        \A i \in 1..Len(desiredInput) : AppliedOnServer(desiredInput[i])

C3_Witness ==
    /\ pc = "done" /\ state = "present" /\ ~check_mode
    /\ Len(CallsOf("PUT")) > 0
    /\ Len(CallsOf("POST")) > 0

(***************************************************************************)
(* C4  Present leaves onlyActual untouched: at every point of a Present    *)
(* run no DELETE has been issued and every stored record whose key is not  *)
(* in the desired list is as it was when the run started.                  *)
(***************************************************************************)
C4_PresentLeavesOnlyActual ==
    (pc # "ready" /\ Lower(state) = "present") =>
        /\ CallsOf("DELETE") = <<>>
        /\ OnlyActualUntouched

C4_Witness ==
    /\ RunEnded /\ state = "present" /\ ~check_mode
    /\ ~NoMutationIssued
    /\ onlyInArtifactory # <<>>
    /\ \E k \in DOMAIN remote0 : Lower(k) \notin LowerKeysOf(desiredInput)

(***************************************************************************)
(* C5  Absent policy: an Absent run issues no PUT and no POST, its DELETEs *)
(* go to inBoth records, it creates no record and leaves the records that  *)
(* are only on the server as they were; when it has completed outside      *)
(* check mode it has issued one DELETE per inBoth record and no desired    *)
(* key is stored on the server.                                            *)
(***************************************************************************)
C5_AbsentPolicy ==
    (pc # "ready" /\ Lower(state) = "absent") =>
        /\ CallsOf("PUT") = <<>>
        /\ CallsOf("POST") = <<>>
        /\ \A i \in 1..Len(calls) : calls[i].method = "DELETE" => calls[i].url \in KeysOf(inBoth)
        /\ DOMAIN remote \subseteq DOMAIN remote0
        /\ OnlyActualUntouched
        /\ (pc = "done" /\ ~check_mode) =>
              /\ Urls(CallsOf("DELETE")) = KeySeq(inBoth)
              /\ \A k \in DOMAIN remote : Lower(k) \notin LowerKeysOf(desiredInput)

C5_Witness ==
    /\ pc = "done" /\ state = "absent" /\ ~check_mode
    /\ inBoth # <<>>
    /\ onlyInArgs # <<>>
    /\ DOMAIN remote # DOMAIN remote0

(***************************************************************************)
(* C6  Idempotence of Present: when a Present run outside check mode has   *)
(* completed and the task is run again, the second run, unless a remote    *)
(* call of it fails, completes with changed = false and issues no PUT,     *)
(* POST or DELETE.                                                         *)
(***************************************************************************)
C6_PresentIdempotent ==
    (/\ prev.completed /\ ~prev.check_mode
     /\ state = "present"
     /\ RunEnded /\ error # "AnsibleActionFail") =>
        /\ pc = "done"
        /\ ~result.changed
        /\ NoMutationIssued

(***************************************************************************)
(* C7  Dry-run purity: at every point of a run in check mode no PUT, POST  *)
(* or DELETE has been issued and the server's content is what it was when  *)
(* the run started.                                                        *)
(***************************************************************************)
C7_DryRunPurity ==
    (pc # "ready" /\ check_mode) =>
        /\ NoMutationIssued
        /\ remote = remote0

C7_Witness ==
    /\ pc = "done" /\ check_mode
    /\ addedRepos > 0
    /\ updatedRepos > 0
    /\ remote = remote0

(***************************************************************************)
(* C8  Dry-run reports the same plan: a completed run outside check mode   *)
(* that follows a completed check-mode run of the same task, with the same *)
(* listing answer, returns the counts and the changed flag the check-mode  *)
(* run returned.                                                           *)
(***************************************************************************)
C8_DryRunSamePlan ==
    (/\ pc = "done" /\ ~check_mode
     /\ prev.completed /\ prev.check_mode
     /\ prev.listing = jsonGetResult) =>
        /\ addedRepos = prev.added
        /\ updatedRepos = prev.updated
        /\ deletedRepos = prev.deleted
        /\ result.changed = prev.changed

C8_Witness ==
    /\ pc = "done" /\ ~check_mode
    /\ prev.completed /\ prev.check_mode
    /\ prev.listing = jsonGetResult
    /\ addedRepos > 0
    /\ updatedRepos > 0
    /\ ~NoMutationIssued

(***************************************************************************)
(* C9  Prune destructiveness: a Prune run with an empty desired list never *)
(* issues a PUT or a POST; when it has completed against a non-empty       *)
(* listing it reports deletedCount = len(actual) and changed = true, and   *)
(* outside check mode it has issued one DELETE per listed record, which    *)
(* leaves the server empty.                                                *)
(***************************************************************************)
C9_PruneEmptyDesired ==
    (pc # "ready" /\ Lower(state) = "prune" /\ desiredInput = <<>>) =>
        /\ CallsOf("PUT") = <<>>
        /\ CallsOf("POST") = <<>>
        /\ (pc = "done" /\ jsonGetResult # <<>>) =>
              /\ deletedRepos = Len(jsonGetResult)
              /\ result.changed
              /\ addedRepos = 0 /\ updatedRepos = 0
              /\ ~check_mode =>
                    /\ Urls(CallsOf("DELETE")) = KeySeq(jsonGetResult)
                    /\ DOMAIN remote = {}

C9_Witness ==
    /\ pc = "done" /\ state = "prune" /\ desiredInput = <<>> /\ ~check_mode
    /\ Len(jsonGetResult) = 2
    /\ Len(CallsOf("DELETE")) = 2

(***************************************************************************)
(* C10  Absent with an empty desired list is a no-op: no PUT, POST or      *)
(* DELETE is issued, the server keeps its content, and the completed run   *)
(* reports changed = false.                                                *)
(***************************************************************************)
C10_AbsentEmptyDesired ==
    (pc # "ready" /\ Lower(state) = "absent" /\ desiredInput = <<>>) =>
        /\ NoMutationIssued
        /\ remote = remote0
        /\ pc = "done" => (result.returned /\ ~result.changed)

C10_Witness ==
    /\ pc = "done" /\ state = "absent" /\ desiredInput = <<>> /\ ~check_mode
    /\ Len(jsonGetResult) = 2
    /\ result.returned

(***************************************************************************)
(* C11  A desired list with two records whose keys are equal ignoring      *)
(* letter case is rejected with a validation error, whatever the other     *)
(* fields and the target state, before any remote call, the listing call   *)
(* included: by ActionModule.run and by the public methods of              *)
(* ArtifactoryApi alike.                                                   *)
(***************************************************************************)
C11_DuplicateKeysRejected ==
    /\ (frame.op = "" /\ pc \notin {"ready", "validate"} /\ DuplicateKeys(desiredInput)) =>
          (pc = "error" /\ error = "AnsibleOptionsError" /\ calls = <<>>)
    /\ (frame.op \in ApiOps /\ DuplicateKeys(frame.configs)) =>
          (calls = <<>> /\ pc \in {"listing", "raised"})

(***************************************************************************)
(* C12  The target state is accepted case-insensitively as Present, Absent *)
(* or Prune; with any other value the run ends with the options error      *)
(* before any remote call, so the server keeps its content.                *)
(***************************************************************************)
C12_StateValidation ==
    pc \notin {"ready", "validate"} =>
        /\ Lower(state) \notin {"present", "absent", "prune"} =>
              /\ pc = "error"
              /\ error = "AnsibleOptionsError"
              /\ calls = <<>>
              /\ remote = remote0
        /\ ( /\ Lower(state) \in {"present", "absent", "prune"}
             /\ \A i \in 1..Len(desiredInput) : desiredInput[i].packageType # None
             /\ \A i, j \in 1..Len(desiredInput) :
                   i # j => Lower(desiredInput[i].key) # Lower(desiredInput[j].key)
             /\ Lower(auth[1]) \in {"accesstoken", "apikey"} )
           => error # "AnsibleOptionsError"

C12_Witness ==
    /\ pc = "error" /\ error = "AnsibleOptionsError" /\ state = "purge"
    /\ Len(desiredInput) = 2 /\ DOMAIN remote # {}
    /\ Lower(desiredInput[1].key) # Lower(desiredInput[2].key)
    /\ auth[1] = "ApiKey"

(***************************************************************************)
(* C13  Fail-fast without rollback: when a PUT, POST or DELETE call fails, *)
(* the run aborts at once: the failed call is the last call of the run, no *)
(* result is returned, and every mutation applied before the failure is    *)
(* still on the server.                                                    *)
(***************************************************************************)
C13_FailFastNoRollback ==
    \A i \in 1..Len(calls) :
        (IsMutation(calls[i]) /\ calls[i].failed) =>
            /\ i = Len(calls)
            /\ pc = "error"
            /\ ~result.returned
            /\ \A j \in 1..(i - 1) :
                  LET c == calls[j] IN
                  /\ c.method = "PUT" => (c.url \in DOMAIN remote /\ remote[c.url] = c.body)
                  /\ c.method = "POST" =>
                        /\ c.url \in DOMAIN remote
                        /\ \A f \in DOMAIN c.body : f \in DOMAIN remote[c.url]
                                                     /\ remote[c.url][f] = c.body[f]
                  /\ c.method = "DELETE" => c.url \notin DOMAIN remote

C13_Witness ==
    /\ pc = "error" /\ error = "AnsibleActionFail" /\ ~check_mode
    /\ Len(calls) = 3
    /\ calls[2].method = "PUT" /\ ~calls[2].failed
    /\ calls[3].method = "DELETE" /\ calls[3].failed
    /\ remote # remote0

(***************************************************************************)
(* C14  Validate and Fetch failures abort before Apply: with invalid       *)
(* arguments the run ends with an error and no call at all is issued, and  *)
(* with a failed listing call the run ends with an error and the listing   *)
(* call is its only call: no PUT, POST, DELETE or read-one call follows.   *)
(***************************************************************************)
C14_AbortBeforeApply ==
    /\ ( /\ pc \notin {"ready", "validate"}
         /\ \/ \E i \in 1..Len(desiredInput) : desiredInput[i].packageType = None
            \/ \E i, j \in 1..Len(desiredInput) :
                  i # j /\ Lower(desiredInput[i].key) = Lower(desiredInput[j].key)
            \/ Lower(state) \notin {"present", "absent", "prune"}
            \/ Lower(auth[1]) \notin {"basic", "accesstoken", "apikey"}
            \/ Lower(auth[1]) = "basic" /\ auth[2] # "user:pw" )
       => (pc = "error" /\ error # "" /\ calls = <<>> /\ ~result.returned)
    /\ (Len(calls) >= 1 /\ calls[1].failed)
       => (pc = "error" /\ error # "" /\ Len(calls) = 1 /\ ~result.returned
           /\ remote = remote0)

C14_Witness ==
    /\ pc = "error" /\ error = "AnsibleActionFail"
    /\ Len(calls) = 1 /\ calls[1].failed
    /\ Len(desiredInput) = 2 /\ DOMAIN remote # {} /\ state = "prune" /\ ~check_mode

(***************************************************************************)
(* C15  Fixed batch order: after the listing call the calls of a run come  *)
(* in the order PUTs, then read-one/POST pairs, then DELETEs: no PUT after *)
(* a read-one, a POST or a DELETE, no read-one or POST after a DELETE, and *)
(* every POST directly preceded by the read-one of the same repository.    *)
(***************************************************************************)
C15_BatchOrder ==
    /\ Len(calls) >= 1 => (calls[1].method = "GET" /\ calls[1].url = "")
    /\ \A i, j \in 2..Len(calls) :
          i < j =>
              /\ calls[j].method = "PUT" => calls[i].method = "PUT"
              /\ calls[i].method = "DELETE" => calls[j].method = "DELETE"
    /\ \A j \in 2..Len(calls) :
          calls[j].method = "POST" =>
              (calls[j - 1].method = "GET" /\ calls[j - 1].url = calls[j].url /\ j > 2)

C15_Witness ==
    /\ pc = "done" /\ Len(calls) = 4
    /\ calls[2].method = "PUT" /\ calls[3].method = "GET" /\ calls[4].method = "POST"

(***************************************************************************)
(* C16  The changed flag is exactly "the plan is non-empty": a completed   *)
(* run returns changed = true iff added + updated + deleted > 0, which     *)
(* outside check mode is iff a PUT, POST or DELETE was issued; a public    *)
(* method of ArtifactoryApi returns True iff a record was, or in check     *)
(* mode would have been, added, updated or deleted.                        *)
(***************************************************************************)
C16_ChangedIffPlanNonEmpty ==
    /\ pc = "done" =>
          /\ result.returned
          /\ result.changed <=> (addedRepos + updatedRepos + deletedRepos > 0)
          /\ ~check_mode => (result.changed <=> ~NoMutationIssued)
    /\ (pc = "returned" /\ frame.op \in ApiOps) =>
          /\ result.returned
          /\ result.changed <=>
                \/ frame.op # "deleteConfigs" /\ frame.onlyInConfigList # <<>>
                \/ frame.op # "deleteConfigs"
                      /\ \E i \in 1..Len(frame.inBoth) : DiffersFromStored(frame.inBoth[i].record)
                \/ frame.op = "deleteConfigs" /\ frame.inBoth # <<>>
                \/ frame.op = "pruneConfigs" /\ frame.onlyInArtifactory # <<>>
          /\ ~api.inCheckMode => (result.changed <=> ~NoMutationIssued)

C16_Witness ==
    /\ pc = "done" /\ check_mode /\ result.changed
    /\ addedRepos = 0 /\ updatedRepos = 1 /\ deletedRepos = 0

(***************************************************************************)
(* C17  Update decision: under Present and Prune the future record of a    *)
(* configuration in both is the stored record overridden by its fields; it *)
(* is counted as updated, and outside check mode POSTed, iff some field of *)
(* it differs from the stored record.  A configuration whose fields all    *)
(* equal the stored ones is neither counted nor POSTed.                    *)
(***************************************************************************)
C17_UpdateDecision ==
    (pc = "done" /\ state \in {"present", "prune"}) =>
        /\ \A i \in 1..Len(inBoth) : inBoth[i].key \in DOMAIN remote0
        /\ updatedRepos = Cardinality({i \in 1..Len(inBoth) : DiffersFromStored(inBoth[i])})
        /\ Urls(CallsOf("POST")) =
              IF check_mode THEN <<>> ELSE KeySeq(SelectSeq(inBoth, DiffersFromStored))

C17_Witness ==
    /\ pc = "done" /\ state = "present" /\ ~check_mode
    /\ Len(inBoth) = 2 /\ updatedRepos = 1
    /\ ~DiffersFromStored(inBoth[1]) /\ DiffersFromStored(inBoth[2])
    /\ Urls(CallsOf("POST")) = <<inBoth[2].key>>

(***************************************************************************)
(* C18  Key capitalization: a configuration whose key equals a listed key  *)
(* up to letter case is placed in inBoth under the listed spelling, and    *)
(* every read-one, POST and DELETE call of the run names the repository by *)
(* the spelling the server holds, in the url and in the record sent.       *)
(***************************************************************************)
C18_KeyCapitalization ==
    SortExecuted =>
        /\ \A i \in 1..Len(inBoth) : inBoth[i].key \in KeysOf(jsonGetResult)
        /\ pc # "error" =>
              \A i \in 1..Len(desiredInput) :
                  Lower(desiredInput[i].key) \in LowerKeysOf(jsonGetResult) =>
                      \E k \in 1..Len(inBoth) :
                          /\ Lower(inBoth[k].key) = Lower(desiredInput[i].key)
                          /\ inBoth[k].key \in DOMAIN remote0
        /\ \A j \in 2..Len(calls) :
              calls[j].method \in {"GET", "POST", "DELETE"} =>
                  /\ calls[j].url \in DOMAIN remote0
                  /\ calls[j].method = "POST" => calls[j].body.key = calls[j].url

C18_Witness ==
    /\ pc = "done" /\ Len(desiredInput) = 1 /\ desiredInput[1].key = "A"
    /\ DOMAIN remote0 = {"a"}
    /\ Len(inBoth) = 1 /\ inBoth[1].key = "a"
    /\ Len(calls) = 3
    /\ calls[2].method = "GET" /\ calls[2].url = "a"
    /\ calls[3].method = "POST" /\ calls[3].url = "a" /\ calls[3].body.key = "a"

(***************************************************************************)
(* C19  TLS validation defaults to enabled: every request is issued with   *)
(* certificate validation enabled unless ignore_ca_error was set to true,  *)
(* and whenever a request is issued without validation a warning is in the *)
(* result.                                                                 *)
(***************************************************************************)
C19_TlsValidationDefault ==
    \A i \in 1..Len(calls) :
        calls[i].validate_certs = "no" =>
            /\ IF api.constructed THEN api.ignore_ca_error ELSE ignore_ca_error = "True"
            /\ result.warning # <<>>

C21_DesiredImmutable ==
    pc # "ready" =>
        /\ Len(repository_configs) = Len(desiredInput)
        /\ \A i \in 1..Len(desiredInput) :
              /\ DOMAIN repository_configs[i] = DOMAIN desiredInput[i]
              /\ \A f \in DOMAIN desiredInput[i] : repository_configs[i][f] = desiredInput[i][f]

(***************************************************************************)
(* C22  Deep equality compares all fields: deepEquals applied to two       *)
(* ConfigRecords returns, without raising, true iff the two records have   *)
(* the same fields with the same values.                                   *)
(***************************************************************************)
C22_DeepEqualsAllFields ==
    frame.op = "deepEquals" =>
        /\ pc = "returned"
        /\ error = ""
        /\ frame.isChanged <=>
              /\ DOMAIN frame.configs[1] = DOMAIN frame.configs[2]
              /\ \A f \in DOMAIN frame.configs[1] : frame.configs[1][f] = frame.configs[2][f]

(***************************************************************************)
(* C23  No state carried across runs: a call of applyConfigs,              *)
(* deleteConfigs or pruneConfigs behaves as it does on a freshly           *)
(* constructed object, whatever the calls made before on the same object:  *)
(* with an empty argument it ends by returning or with the error of a      *)
(* failed request, and it partitions no record of an earlier argument.     *)
(***************************************************************************)
C23_NoStateAcrossRuns ==
    (frame.op \in ApiOps /\ frame.configs = <<>> /\ pc \in {"returned", "raised"}) =>
        /\ pc = "returned" \/ error = "HTTPError"
        /\ frame.onlyInConfigList = <<>> /\ frame.inBoth = <<>>

(***************************************************************************)
(* C24  Counts equal the calls issued: when a run outside check mode has   *)
(* completed, addedRepos is the number of PUT calls, updatedRepos the      *)
(* number of POST calls and deletedRepos the number of DELETE calls of the *)
(* run, no two calls of one kind name the same repository, and a Present   *)
(* run of one configuration against an empty server has issued one PUT and *)
(* returns changed = true with addedRepos = 1.                             *)
(***************************************************************************)
C24_CountsEqualCalls ==
    (pc = "done" /\ ~check_mode) =>
        /\ addedRepos = Len(CallsOf("PUT"))
        /\ updatedRepos = Len(CallsOf("POST"))
        /\ deletedRepos = Len(CallsOf("DELETE"))
        /\ \A i, j \in 1..Len(calls) :
              (i < j /\ IsMutation(calls[i]) /\ calls[i].method = calls[j].method)
                  => calls[i].url # calls[j].url
        /\ (state = "present" /\ Len(desiredInput) = 1 /\ DOMAIN remote0 = {}) =>
              /\ Urls(CallsOf("PUT")) = <<desiredInput[1].key>>
              /\ addedRepos = 1
              /\ result.changed

C24_Witness ==
    /\ pc = "done" /\ ~check_mode /\ state = "present"
    /\ Len(desiredInput) = 1 /\ DOMAIN remote0 = {}
    /\ Len(calls) = 2 /\ calls[2].method = "PUT"
    /\ addedRepos = 1 /\ result.changed

(***************************************************************************)
(* C25  Batches are disjoint by identity key: within one run no repository *)
(* key is named by more than one PUT, POST or DELETE call, so the keys     *)
(* created, updated and deleted are pairwise disjoint and no mutation is   *)
(* repeated for a key.                                                     *)
(***************************************************************************)
C25_BatchesDisjoint ==
    \A i, j \in 1..Len(calls) :
        (i < j /\ IsMutation(calls[i]) /\ IsMutation(calls[j])) => calls[i].url # calls[j].url

C25_Witness ==
    /\ pc = "done" /\ state = "prune" /\ ~check_mode
    /\ Len(CallsOf("POST")) = 1
    /\ Len(CallsOf("DELETE")) = 1
    /\ CallsOf("POST")[1].url # CallsOf("DELETE")[1].url

(***************************************************************************)
(* C26  Authorization header per credential mode: with auth_type Basic,    *)
(* AccessToken or ApiKey in any letter case (and otherwise valid           *)
(* arguments) the run goes on to its requests, each of which carries the   *)
(* one credential header of the mode: Authorization 'Basic ' + base64 of   *)
(* auth_string, Authorization 'Bearer ' + auth_string, or X-JFrog-Art-Api  *)
(* = auth_string; any other auth_type ends the run with the options error  *)
(* before any request.                                                     *)
(***************************************************************************)
C26_AuthorizationHeader ==
    pc \notin {"ready", "validate"} =>
        /\ \A i \in 1..Len(calls) :
              /\ Lower(auth[1]) = "basic" =>
                    /\ calls[i].headers.name = "Authorization"
                    /\ calls[i].headers.value[1] = "Basic "
              /\ Lower(auth[1]) = "accesstoken" =>
                    /\ calls[i].headers.name = "Authorization"
                    /\ calls[i].headers.value = <<"Bearer ", auth[2]>>
              /\ Lower(auth[1]) = "apikey" =>
                    /\ calls[i].headers.name = "X-JFrog-Art-Api"
                    /\ calls[i].headers.value = <<auth[2]>>
        /\ Lower(auth[1]) \notin {"basic", "accesstoken", "apikey"} =>
              (pc = "error" /\ error = "AnsibleOptionsError" /\ calls = <<>>)
        /\ ( /\ Lower(auth[1]) \in {"basic", "accesstoken", "apikey"}
             /\ Lower(auth[1]) = "basic" => auth[2] = "user:pw"
             /\ Lower(state) \in {"present", "absent", "prune"}
             /\ \A i \in 1..Len(desiredInput) : desiredInput[i].packageType # None
             /\ ~DuplicateKeys(desiredInput)
             /\ ignore_ca_error = "False" )
           => Len(calls) >= 1

(***************************************************************************)
(* C27  The partition step completes for every input: whenever the sort    *)
(* has been executed it has not raised, each configuration whose key       *)
(* matches a listed entry is in inBoth, and the matched entry is no longer *)
(* in onlyInArtifactory, also when the other fields of the configuration   *)
(* differ from those of the listed entry.                                  *)
(***************************************************************************)
C27_PartitionCompletes ==
    SortExecuted =>
        /\ ~(pc = "error" /\ error = "ValueError")
        /\ \A i \in 1..Len(desiredInput) :
              Lower(desiredInput[i].key) \in LowerKeysOf(jsonGetResult) =>
                  /\ Lower(desiredInput[i].key) \in LowerKeysOf(inBoth)
                  /\ Lower(desiredInput[i].key) \notin LowerKeysOf(onlyInArtifactory)

(***************************************************************************)
(* C28  applyConfigs, deleteConfigs and pruneConfigs reconcile every       *)
(* record of their argument: once the listing has been received the        *)
(* partition is made without raising, every record of the argument is in   *)
(* exactly one of onlyInConfigList and inBoth, and these two lists hold    *)
(* no record from outside the argument.                                    *)
(***************************************************************************)
C28_EveryRecordReconciled ==
    (frame.op \in ApiOps /\ pc \in {"applying", "returned", "raised"}
     /\ ~(pc = "raised" /\ error = "HTTPError")) =>
        /\ error = ""
        /\ \A i \in 1..Len(frame.configs) :
              frame.configs[i].key \in RecordKeysOf(frame.onlyInConfigList)
                  <=> frame.configs[i].key \notin RecordKeysOf(frame.inBoth)
        /\ RecordKeysOf(frame.onlyInConfigList) \cup RecordKeysOf(frame.inBoth)
              = KeysOf(frame.configs)

(***************************************************************************)
(* C29  The update request carries the future record: the body of a POST   *)
(* is the record read from the server overridden by the fields of the      *)
(* configuration, and after a successful POST the server holds that        *)
(* record, the fields found only on the server included.                   *)
(***************************************************************************)
C29_UpdateCarriesFuture ==
    (Len(calls) >= 1 /\ calls[Len(calls)].method = "POST" /\ frame.op = "") =>
        LET c == calls[Len(calls)]
            d == CHOOSE r \in Range(inBoth) : r.key = c.url
            future == [f \in (DOMAIN currentConfig) \cup (DOMAIN d) |->
                          IF f \in DOMAIN d THEN d[f] ELSE currentConfig[f]]
        IN  /\ c.body = future
            /\ ~c.failed => remote[c.url] = future

(***************************************************************************)
(* C30  Idempotence of Absent and of Prune: when an Absent or Prune run    *)
(* outside check mode has completed and the task is run again outside      *)
(* check mode, the second run, unless a remote call of it fails or the     *)
(* certificate warning cannot be recorded, completes with changed = false  *)
(* and issues no PUT, POST or DELETE.                                      *)
(***************************************************************************)
C30_AbsentPruneIdempotent ==
    (/\ prev.completed /\ ~prev.check_mode /\ ~check_mode
     /\ state \in {"absent", "prune"}
     /\ RunEnded /\ error \notin {"AnsibleActionFail", "KeyError"}) =>
        /\ pc = "done"
        /\ ~result.changed
        /\ NoMutationIssued

====
